---- MODULE Spec2Model ----
(***************************************************************************)
(* Model of e2ebench/visualization_cli.py: the filter / prompt / join /    *)
(* render pipeline of main().  DataFrames are sets of rows (records), the  *)
(* interactive prompt returns any subset of the choices it was given.      *)
(***************************************************************************)
EXTENDS Integers, Sequences, FiniteSets, TLC

\* Largest number of measurement rows in the store.
MaxMeas == 3

\* ------------------------------------------------------------------------
\* Values stored in the database file
\* ------------------------------------------------------------------------
\* A NULL column value (Python None in the DataFrame).
NULL == "<NULL>"

Uuids == {"A", "B"}
Types == {"latency", "memory", "unregistered"}
Descriptions == {NULL, "train"}

\* Measurement types that have a visualizer class.
type_to_visualizer_class_mapper == {"latency", "memory"}

\* Position of a key in pandas' sorted groupby order (lexicographic).
UuidRank(u) == IF u = "A" THEN 0 ELSE 1
TypeRank(t) == CASE t = "latency" -> 0 [] t = "memory" -> 1 [] OTHER -> 2
DescRank(d) == IF d = NULL THEN 0 ELSE 1
RowRank(r) ==
    (UuidRank(r.uuid) * Cardinality(Types) + TypeRank(r.measurement_type))
        * Cardinality(Descriptions) + DescRank(r.measurement_desc)

\* The measurement columns create_dfs reads, without the id.
MeasCols(uuids) ==
    [uuid : uuids, measurement_type : Types, measurement_desc : Descriptions]

MeasRow(i, c) ==
    [id |-> i, uuid |-> c.uuid, measurement_type |-> c.measurement_type,
     measurement_desc |-> c.measurement_desc]

\* Measurement tables with ids 1..n, n <= MaxMeas, every row of a run in
\* uuids (benchmark_uuid is a foreign key).  Ids are handed out in insertion
\* order and nothing below depends on which row got which id, so one table
\* per multiset of rows is enumerated.
MeasTables(uuids) ==
    UNION { { {MeasRow(i, f[i]) : i \in 1..n} :
                f \in { g \in [1..n -> MeasCols(uuids)] :
                          \A i, j \in 1..n : i < j => RowRank(g[i]) <= RowRank(g[j]) } } :
            n \in 0..MaxMeas }

\* benchmark_metadata row; uuid is the primary key, start_time is per run.
MetaRow(u) == [uuid |-> u, meta_start_time |-> UuidRank(u)]

\* ------------------------------------------------------------------------
\* Python values as argparse hands them over
\* ------------------------------------------------------------------------
PyNone == [kind |-> "None", str |-> "", items |-> {}]
PyStr(s) == [kind |-> "str", str |-> s, items |-> {}]
PyList(S) == [kind |-> "list", str |-> "", items |-> S]

Truthy(x) ==
    CASE x.kind = "None" -> FALSE
      [] x.kind = "str"  -> x.str # ""
      [] x.kind = "list" -> x.items # {}

IsNone(x) == x.kind = "None"

\* The Python object held by a DataFrame cell.
Cell(v) == IF v = NULL THEN PyNone ELSE PyStr(v)

\* -u/-t/-d with nargs="+": None, or a non-empty list of strings.
ArgUuids == {PyNone, PyList({"A"}), PyList({"A", "B"}), PyList({"nonexistent"})}
ArgTypes == {PyNone, PyList({"latency"})}
ArgDescriptions == {PyNone, PyList({"train"})}

get_args == [uuids : ArgUuids, types : ArgTypes, descriptions : ArgDescriptions]

\* ------------------------------------------------------------------------
\* pandas helpers
\* ------------------------------------------------------------------------
\* Series.isin(values) for one cell: the cell's object equals one of the
\* objects in values.
isin(cell, values) == \E v \in values : v = Cell(cell)

\* isin hashes the objects in values; a list is unhashable.
Unhashable(values) == \E v \in values : v.kind = "list"

\* DataFrame.groupby(col): one group per distinct non-null key.
groupby(rows, col) ==
    { [key |-> k, rows |-> {r \in rows : r[col] = k}] :
        k \in {r[col] : r \in rows} \ {NULL} }

ids_of(rows) == {r.id : r \in rows}

VARIABLES
    store_meas,     \* measurement table of the database file
    store_meta,     \* benchmark_metadata table of the database file
    args,           \* parsed command line
    pc,             \* position in main()
    meas_df, meta_df, df,
    error,          \* "" or the exception that ended the run
    prompts,        \* prompts issued so far, in order
    rendered,       \* groups handed to a visualizer so far, in order
    session_open

vars == <<store_meas, store_meta, args, pc, meas_df, meta_df, df, error,
          prompts, rendered, session_open>>

\* ------------------------------------------------------------------------
\* filter_by_args
\* ------------------------------------------------------------------------
\* raises: whether the installed pandas raises on an unhashable element of
\* the isin argument (TypeError) or treats it as equal to no cell.
\* filter_by_args without the measurement-type criterion.
filter_by_args_without_types(meas, meta, a, raises) ==
    LET u  == Truthy(a.uuids)
        d  == Truthy(a.descriptions)
        m1 == IF u THEN {r \in meas : isin(r.uuid, {a.uuids})} ELSE meas
        x1 == IF u THEN {r \in meta : isin(r.uuid, {a.uuids})} ELSE meta
        m3 == IF d THEN {r \in m1 : isin(r.measurement_desc, {a.descriptions})} ELSE m1
        typeError ==
            raises /\ \/ u /\ Unhashable({a.uuids})
                      \/ d /\ Unhashable({a.descriptions})
    IN  IF typeError
        THEN [error |-> "TypeError", meas_df |-> meas, meta_df |-> meta]
        ELSE IF m3 = {}
        THEN [error |-> "NoMatchingRecords", meas_df |-> m3, meta_df |-> x1]
        ELSE [error |-> "", meas_df |-> m3, meta_df |-> x1]

filter_by_args(meas, meta, a, raises) ==
    LET u  == Truthy(a.uuids)
        t  == Truthy(a.types)
        d  == Truthy(a.descriptions)
        m1 == IF u THEN {r \in meas : isin(r.uuid, {a.uuids})} ELSE meas
        x1 == IF u THEN {r \in meta : isin(r.uuid, {a.uuids})} ELSE meta
        m2 == IF t THEN {r \in m1 : isin(r.measurement_type, {a.types})} ELSE m1
        m3 == IF d THEN {r \in m2 : isin(r.measurement_desc, {a.descriptions})} ELSE m2
        typeError ==
            raises /\ \/ u /\ Unhashable({a.uuids})
                      \/ t /\ Unhashable({a.types})
                      \/ d /\ Unhashable({a.descriptions})
    IN  IF typeError
        THEN [error |-> "TypeError", meas_df |-> meas, meta_df |-> meta]
        ELSE IF m3 = {}
        THEN [error |-> "NoMatchingRecords", meas_df |-> m3, meta_df |-> x1]
        ELSE [error |-> "", meas_df |-> m3, meta_df |-> x1]

\* ------------------------------------------------------------------------
\* prompts: choices offered and the narrowing by the answer
\* ------------------------------------------------------------------------
\* One checkbox entry per metadata row, its value the uuid.
uuid_choices(meta) == {r.uuid : r \in meta}

prompt_for_uuid(meas, meta, chosen_uuids) ==
    [meas_df |-> {r \in meas : r.uuid \in chosen_uuids},
     meta_df |-> {r \in meta : r.uuid \in chosen_uuids}]

\* One entry per (uuid, measurement_type) group, its value the group's ids.
types_choices(meas) ==
    { ids_of(tg.rows) :
        tg \in UNION { groupby(ug.rows, "measurement_type") : ug \in groupby(meas, "uuid") } }

\* prompt_for_types that leaves the table alone when nothing was selected.
prompt_for_types_keeps_all_when_empty(meas, prompt_res) ==
    LET idx == UNION prompt_res
    IN  IF idx = {} THEN meas ELSE {r \in meas : r.id \in idx}

prompt_for_types(meas, prompt_res) ==
    LET idx == UNION prompt_res
    IN  {r \in meas : r.id \in idx}

\* One entry per (uuid, measurement_type, measurement_desc) group.
description_choices(meas) ==
    { ids_of(dg.rows) :
        dg \in UNION { groupby(utg.rows, "measurement_desc") :
                        utg \in UNION { groupby(ug.rows, "measurement_type") :
                                         ug \in groupby(meas, "uuid") } } }

prompt_for_description(meas, prompt_res) ==
    LET idx == UNION prompt_res
    IN  {r \in meas : r.id \in idx}

\* The gate of main() with the test inverted.
stage_prompts_when_supplied(arg) == ~IsNone(arg)

\* main(): a stage prompts exactly when its argument is None.
stage_prompts(arg) == IsNone(arg)

Answer(stage, choices, chosen) ==
    [stage |-> stage, full |-> chosen = choices, empty |-> chosen = {}]

\* ------------------------------------------------------------------------
\* join_remaining_columns
\* ------------------------------------------------------------------------
\* The payload columns of the measurement with id i (opaque, keyed by id).
serialized_row(i) == [id |-> i, measurement_data |-> i]

FlatRecord(m, s, x) ==
    [id |-> m.id, uuid |-> m.uuid, measurement_type |-> m.measurement_type,
     measurement_desc |-> m.measurement_desc,
     measurement_data |-> s.measurement_data,
     meta_start_time |-> x.meta_start_time]

\* join_remaining_columns with the metadata merged without a key.
join_remaining_columns_cross(meas, meta, store) ==
    LET serialized_df == {serialized_row(r.id) : r \in {q \in store : q.id \in ids_of(meas)}}
    IN  { FlatRecord(t[1], t[2], t[3]) :
            t \in { w \in meas \X serialized_df \X meta : w[1].id = w[2].id } }

\* merge on 'id', then merge on 'uuid' (inner joins): one output row per
\* matching (measurement, payload, metadata) triple.
join_remaining_columns(meas, meta, store) ==
    LET serialized_df == {serialized_row(r.id) : r \in {q \in store : q.id \in ids_of(meas)}}
    IN  { FlatRecord(t[1], t[2], t[3]) :
            t \in { w \in meas \X serialized_df \X meta :
                     w[1].id = w[2].id /\ w[1].uuid = w[3].uuid } }

\* ------------------------------------------------------------------------
\* render loop of main()
\* ------------------------------------------------------------------------
\* The render loop grouping by ['uuid', 'measurement_type'] while still keyed
\* by the measurement type.
remaining_groups_per_run(flat, done) ==
    { g \in UNION { groupby(ug.rows, "measurement_type") : ug \in groupby(flat, "uuid") } :
        \A i \in DOMAIN done : done[i].key # g.key }

\* df.groupby('measurement_type'): groups not yet visited.
remaining_groups(flat, done) ==
    { g \in groupby(flat, "measurement_type") :
        \A i \in DOMAIN done : done[i].key # g.key }

\* groupby iterates in sorted key order.
next_group(flat, done) ==
    CHOOSE g \in remaining_groups(flat, done) :
        \A h \in remaining_groups(flat, done) : TypeRank(g.key) <= TypeRank(h.key)

\* ------------------------------------------------------------------------
\* main() as a state machine
\* ------------------------------------------------------------------------
Init ==
    /\ \E us \in SUBSET Uuids :
          /\ store_meta = {MetaRow(u) : u \in us}
          /\ store_meas \in MeasTables(us)
    /\ args \in get_args
    /\ pc = "create_dfs"
    /\ meas_df = {}
    /\ meta_df = {}
    /\ df = {}
    /\ error = ""
    /\ prompts = <<>>
    /\ rendered = <<>>
    /\ session_open = TRUE

create_dfs ==
    /\ pc = "create_dfs"
    /\ meas_df' = store_meas
    /\ meta_df' = store_meta
    /\ pc' = "filter_by_args"
    /\ UNCHANGED <<store_meas, store_meta, args, df, error, prompts, rendered, session_open>>

FilterByArgs ==
    /\ pc = "filter_by_args"
    /\ \E raises \in BOOLEAN :
          LET res == filter_by_args(meas_df, meta_df, args, raises)
          IN  /\ error' = res.error
              /\ meas_df' = IF res.error = "" THEN res.meas_df ELSE meas_df
              /\ meta_df' = IF res.error = "" THEN res.meta_df ELSE meta_df
              /\ pc' = IF res.error = "" THEN "prompt_for_uuid" ELSE "failed"
    /\ UNCHANGED <<store_meas, store_meta, args, df, prompts, rendered, session_open>>

UuidStage ==
    /\ pc = "prompt_for_uuid"
    /\ IF stage_prompts(args.uuids)
       THEN \E chosen \in SUBSET uuid_choices(meta_df) :
              LET res == prompt_for_uuid(meas_df, meta_df, chosen)
              IN  /\ meas_df' = res.meas_df
                  /\ meta_df' = res.meta_df
                  /\ prompts' = Append(prompts, Answer("uuids", uuid_choices(meta_df), chosen))
       ELSE UNCHANGED <<meas_df, meta_df, prompts>>
    /\ pc' = "prompt_for_types"
    /\ UNCHANGED <<store_meas, store_meta, args, df, error, rendered, session_open>>

TypesStage ==
    /\ pc = "prompt_for_types"
    /\ IF stage_prompts(args.types)
       THEN \E chosen \in SUBSET types_choices(meas_df) :
              /\ meas_df' = prompt_for_types(meas_df, chosen)
              /\ prompts' = Append(prompts,
                                   Answer("measurement_types", types_choices(meas_df), chosen))
       ELSE UNCHANGED <<meas_df, prompts>>
    /\ pc' = "prompt_for_description"
    /\ UNCHANGED <<store_meas, store_meta, args, meta_df, df, error, rendered, session_open>>

DescriptionStage ==
    /\ pc = "prompt_for_description"
    /\ IF stage_prompts(args.descriptions)
       THEN \E chosen \in SUBSET description_choices(meas_df) :
              /\ meas_df' = prompt_for_description(meas_df, chosen)
              /\ prompts' = Append(prompts,
                                   Answer("descriptions", description_choices(meas_df), chosen))
       ELSE UNCHANGED <<meas_df, prompts>>
    /\ pc' = "join_remaining_columns"
    /\ UNCHANGED <<store_meas, store_meta, args, meta_df, df, error, rendered, session_open>>

JoinRemainingColumns ==
    /\ pc = "join_remaining_columns"
    /\ df' = join_remaining_columns(meas_df, meta_df, store_meas)
    /\ pc' = "render"
    /\ UNCHANGED <<store_meas, store_meta, args, meas_df, meta_df, error, prompts,
                   rendered, session_open>>

\* One iteration of the for loop: look the visualizer class up, plot.
RenderGroup ==
    /\ pc = "render"
    /\ remaining_groups(df, rendered) # {}
    /\ LET g == next_group(df, rendered)
       IN  IF g.key \in type_to_visualizer_class_mapper
           THEN /\ rendered' = Append(rendered, g)
                /\ UNCHANGED <<pc, error>>
           ELSE /\ error' = "KeyError"
                /\ pc' = "failed"
                /\ UNCHANGED rendered
    /\ UNCHANGED <<store_meas, store_meta, args, meas_df, meta_df, df, prompts, session_open>>

\* After the loop: show the figures, close the session.
Finish ==
    /\ pc = "render"
    /\ remaining_groups(df, rendered) = {}
    /\ session_open' = FALSE
    /\ pc' = "done"
    /\ UNCHANGED <<store_meas, store_meta, args, meas_df, meta_df, df, error, prompts, rendered>>

Next ==
    \/ create_dfs
    \/ FilterByArgs
    \/ UuidStage
    \/ TypesStage
    \/ DescriptionStage
    \/ JoinRemainingColumns
    \/ RenderGroup
    \/ Finish

Spec == Init /\ [][Next]_vars

\* main() runs to its end: every step is taken once it is reached.
FairSpec == Spec /\ WF_vars(Next)

\* ------------------------------------------------------------------------
\* Properties
\* ------------------------------------------------------------------------
\* Rows whose column values are members of every supplied criterion list.
Matching(meas, a) ==
    { r \in meas :
        /\ Truthy(a.uuids) => r.uuid \in a.uuids.items
        /\ Truthy(a.types) => r.measurement_type \in a.types.items
        /\ Truthy(a.descriptions) => r.measurement_desc \in a.descriptions.items }

SomeCriterion == Truthy(args.uuids) \/ Truthy(args.types) \/ Truthy(args.descriptions)

\* filter_by_args has returned and nothing has touched its result yet.
FilterReturned == pc = "prompt_for_uuid"

\* filter_by_args has returned or raised.
FilterRan == pc \notin {"create_dfs", "filter_by_args"}

FilterRaised == error \in {"TypeError", "NoMatchingRecords"}

\* join_remaining_columns has returned.
Joined == pc \in {"render", "done"} \/ (pc = "failed" /\ error = "KeyError")

RunEnded == pc \in {"done", "failed"}

C2_FilterCompleteness ==
    (FilterRan /\ Matching(store_meas, args) # {}) =>
        /\ ~FilterRaised
        /\ FilterReturned => meas_df = Matching(store_meas, args)

\* C3: when no row matches the supplied criteria, filter_by_args raises the
\* no-matching-records error, and no prompt, join or renderer has run.
C3_EmptyResultError ==
    (FilterRan /\ Matching(store_meas, args) = {}) =>
        /\ pc = "failed"
        /\ error = "NoMatchingRecords"
        /\ prompts = <<>>
        /\ df = {}
        /\ rendered = <<>>

\* C4: after filter_by_args returns, the metadata table holds exactly the
\* runs that still have a row in the measurement table, so the uuid prompt
\* offers no run without a surviving measurement.
C4_MetaRestricted ==
    FilterReturned => uuid_choices(meta_df) = {r.uuid : r \in meas_df}

StageArg(a, stage) ==
    CASE stage = "uuids" -> a.uuids
      [] stage = "measurement_types" -> a.types
      [] stage = "descriptions" -> a.descriptions

Stages == <<"uuids", "measurement_types", "descriptions">>

StageNames(p) == [i \in DOMAIN p |-> p[i].stage]

\* The stages main() has gone past.
StagesPassed ==
    CASE pc = "prompt_for_types" -> SubSeq(Stages, 1, 1)
      [] pc = "prompt_for_description" -> SubSeq(Stages, 1, 2)
      [] pc = "join_remaining_columns" \/ Joined -> Stages
      [] OTHER -> <<>>

Unsupplied(seq) == SelectSeq(seq, LAMBDA stage : IsNone(StageArg(args, stage)))

\* C5 as stated: in every run of main, the prompts issued are, in order,
\* those of the stages whose flag was not supplied.
C5_EveryRunPrompts == RunEnded => StageNames(prompts) = Unsupplied(Stages)

\* C5 amended: in every run in which filter_by_args returns, the stages main
\* has gone past have prompted in the order uuids, measurement_types,
\* descriptions, each exactly when its flag was not supplied; a run that ends
\* in filter_by_args has prompted nothing.
C5_StageGating == StageNames(prompts) = Unsupplied(StagesPassed)

C5_Witness == pc = "done" /\ Len(prompts) = Len(Stages)

AllSelectionsFull == \A i \in DOMAIN prompts : prompts[i].full

\* C6: with no flags and every offered entry selected at all three stages,
\* the measurement table that reaches the join is the table the stages
\* started from: no row is lost by passing through a stage.
C6_FullSelectionKeepsRows ==
    (pc = "join_remaining_columns" /\ ~SomeCriterion /\ AllSelectionsFull)
        => meas_df = store_meas

\* C7: the joined table has exactly one row per measurement id that went
\* into the join, and no other row.
C7_JoinCardinality ==
    Joined =>
        /\ \A m \in meas_df : Cardinality({d \in df : d.id = m.id}) = 1
        /\ ids_of(df) \subseteq ids_of(meas_df)

C7_Witness == Joined /\ Cardinality(df) > 1 /\ Cardinality(meta_df) > 1

\* C8: when a measurement type has no visualizer, the run ends in the lookup
\* error with no visualizer invoked for any other group.
C8_NoRenderBeforeLookupError == error = "KeyError" => rendered = <<>>

RenderedRows == UNION {rendered[i].rows : i \in DOMAIN rendered}

\* C9 as stated: when the run has ended after the join, every joined row was
\* handed to exactly one visualizer invocation.
C9_EveryRowRendered ==
    (Joined /\ RunEnded) =>
        \A d \in df : Cardinality({i \in DOMAIN rendered : d \in rendered[i].rows}) = 1

\* C9 amended: every group handed to a visualizer is the set of all joined
\* rows of one measurement type, no two invocations get the same type, and
\* when the render loop completes (every type has a visualizer) the groups
\* together are the whole joined table.
C9_RenderPartition ==
    /\ \A i \in DOMAIN rendered :
          rendered[i].rows = {d \in df : d.measurement_type = rendered[i].key}
    /\ \A i, j \in DOMAIN rendered : i # j => rendered[i].key # rendered[j].key
    /\ pc = "done" => RenderedRows = df

C9_Witness == pc = "done" /\ Len(rendered) > 1 /\ Cardinality(df) = MaxMeas

SomeEmptySelection == \E i \in DOMAIN prompts : prompts[i].empty

\* An empty answer to a prompt that offered something.
SelectedNothing == \E i \in DOMAIN prompts : prompts[i].empty /\ ~prompts[i].full

NormalCompletion == pc = "done" /\ error = "" /\ ~session_open

\* C10: once a prompt was answered with an empty selection, the measurement
\* table is empty, no error is raised, the remaining stages still prompt, no
\* visualizer is invoked, and the run reaches normal completion with the
\* session closed.
C10_EmptySelection ==
    /\ [](SomeEmptySelection =>
            /\ meas_df = {}
            /\ error = ""
            /\ pc # "failed"
            /\ rendered = <<>>
            /\ StageNames(prompts) = Unsupplied(StagesPassed))
    /\ (SomeEmptySelection ~> NormalCompletion)

C10_Witness == NormalCompletion /\ SelectedNothing /\ Len(prompts) = Len(Stages)

====
